---------------------------- MODULE Spec2Model ----------------------------
(***************************************************************************)
(* Model of models.py: the sparse n-gram feature extractors, the           *)
(* perceptron and logistic-regression classifiers, their online trainers   *)
(* and the train_model dispatcher.                                         *)
(*                                                                         *)
(* Strings are sequences of one-character strings, so that str.lower()     *)
(* and the " " join of the n-gram extractors are computed, not assumed.    *)
(* Python list and Counter indices are 0-based; TLA+ sequences are         *)
(* 1-based, so weight_vector[f] of the source is weight_vector[f + 1].     *)
(* Floats are fixed-point integers: a weight or score v is the integer     *)
(* v * Scale, a probability p is the integer p * PScale, rounded to the    *)
(* nearest unit.                                                           *)
(***************************************************************************)
EXTENDS Integers, Sequences, FiniteSets, TLC

VARIABLES args_model, args_feats, train_exs, indexer, weight_vector,
          epoch, pos, pc, outcome, calls, last

vars == <<args_model, args_feats, train_exs, indexer, weight_vector,
          epoch, pos, pc, outcome, calls, last>>

(***************************************************************************)
(* Bounds of the model.                                                    *)
(***************************************************************************)
MaxExs == 2
MaxEpochs == 3
MaxCalls == 2
MaxSentLen == 4

(***************************************************************************)
(* Strings and tokens.                                                     *)
(***************************************************************************)
Tokens == {<<"G">>, <<"g">>, <<"t">>}

LowerChar(c) ==
    CASE c = "G" -> "g"
      [] c = "T" -> "t"
      [] OTHER -> c

Lower(s) == [i \in 1..Len(s) |-> LowerChar(s[i])]

RECURSIVE SentencesOfLen(_)
SentencesOfLen(n) ==
    IF n = 0 THEN {<< >>}
    ELSE {Append(s, t) : s \in SentencesOfLen(n - 1), t \in Tokens}

SentencesUpTo(n) == UNION {SentencesOfLen(k) : k \in 0..n}

(***************************************************************************)
(* utils.Indexer: the keys in first-seen order; the index of a key is its  *)
(* 0-based position.                                                       *)
(***************************************************************************)
NoIndex == 0 - 1

IndexerEmpty == << >>

IndexerLen(ix) == Len(ix)

IndexerContains(ix, key) == \E i \in 1..Len(ix) : ix[i] = key

IndexerIndexOf(ix, key) ==
    IF IndexerContains(ix, key)
    THEN (CHOOSE i \in 1..Len(ix) : ix[i] = key) - 1
    ELSE NoIndex

IndexerAdd(ix, key) == IF IndexerContains(ix, key) THEN ix ELSE Append(ix, key)

(***************************************************************************)
(* collections.Counter: keys in insertion order and their values.          *)
(***************************************************************************)
CounterEmpty == [keys |-> << >>, cnt |-> [k \in {} |-> 0]]

CounterKeys(c) == {c.keys[i] : i \in 1..Len(c.keys)}

CounterSet(c, k, v) ==
    [keys |-> IF k \in DOMAIN c.cnt THEN c.keys ELSE Append(c.keys, k),
     cnt  |-> [x \in (DOMAIN c.cnt) \cup {k} |-> IF x = k THEN v ELSE c.cnt[x]]]

(***************************************************************************)
(* The feature extractors.                                                 *)
(***************************************************************************)
FeatKinds == {"UNIGRAM", "BIGRAM", "BETTER"}

\* range(len(sentence)), range(len(sentence)-1), range(len(sentence)-2)
NumGrams(kind, sentence) ==
    LET n == CASE kind = "UNIGRAM" -> Len(sentence)
               [] kind = "BIGRAM"  -> Len(sentence) - 1
               [] OTHER            -> Len(sentence) - 2
    IN  IF n < 0 THEN 0 ELSE n

\* the lowercased n-gram that starts at the 0-based position i
Gram(kind, sentence, i) ==
    CASE kind = "UNIGRAM" -> Lower(sentence[i + 1])
      [] kind = "BIGRAM"  -> Lower(sentence[i + 1] \o <<" ">> \o sentence[i + 2])
      [] OTHER            -> Lower(sentence[i + 1] \o <<" ">> \o sentence[i + 2]
                                   \o <<" ">> \o sentence[i + 3])

\* ExtractStep with the add_to_indexer flag ignored: unseen n-grams are always added
ExtractStepIgnoreFlag(acc, gram, add_to_indexer) ==
    LET ix2 == IndexerAdd(acc.indexer, gram)
    IN  [indexer  |-> ix2,
         features |-> CounterSet(acc.features, IndexerIndexOf(ix2, gram), 1)]

\* ExtractStep counting occurrences (features[i] += 1) instead of setting 1
ExtractStepCount(acc, gram, add_to_indexer) ==
    LET ix2 == IF add_to_indexer THEN IndexerAdd(acc.indexer, gram) ELSE acc.indexer
        k   == IndexerIndexOf(ix2, gram)
    IN  IF k = NoIndex THEN acc
        ELSE [indexer  |-> ix2,
              features |-> CounterSet(acc.features, k,
                               (IF k \in DOMAIN acc.features.cnt
                                THEN acc.features.cnt[k] ELSE 0) + 1)]

\* one iteration of the loop body of extract_features
ExtractStep(acc, gram, add_to_indexer) ==
    IF IndexerContains(acc.indexer, gram)
    THEN [indexer  |-> acc.indexer,
          features |-> CounterSet(acc.features, IndexerIndexOf(acc.indexer, gram), 1)]
    ELSE IF add_to_indexer
         THEN LET ix2 == IndexerAdd(acc.indexer, gram)
              IN  [indexer  |-> ix2,
                   features |-> CounterSet(acc.features, IndexerIndexOf(ix2, gram), 1)]
         ELSE acc

RECURSIVE ExtractLoop(_, _, _, _, _)
ExtractLoop(kind, acc, sentence, i, add_to_indexer) ==
    IF i >= NumGrams(kind, sentence) THEN acc
    ELSE ExtractLoop(kind, ExtractStep(acc, Gram(kind, sentence, i), add_to_indexer),
                     sentence, i + 1, add_to_indexer)

\* extract_features of the extractor of the given kind, on the indexer ix:
\* the indexer after the call and the Counter returned
ExtractFeatures(kind, ix, sentence, add_to_indexer) ==
    ExtractLoop(kind, [indexer |-> ix, features |-> CounterEmpty],
                sentence, 0, add_to_indexer)

(***************************************************************************)
(* Fixed-point arithmetic for the floats of the classifiers.               *)
(***************************************************************************)
Scale == 10 ^ 3

PScale == 4 * Scale

\* a / b rounded to the nearest integer, for a >= 0 and b > 0
RoundDiv(a, b) == (2 * a + b) \div (2 * b)

\* the Taylor series of exp at x >= 0, from the term of order n on
RECURSIVE ExpSeries(_, _, _)
ExpSeries(x, n, term) ==
    IF term = 0 THEN 0
    ELSE term + ExpSeries(x, n + 1, RoundDiv(term * x, n * Scale))

\* math.exp, for a score between -6 and 6
FixExp(x) ==
    IF x >= 0 THEN ExpSeries(x, 1, Scale)
    ELSE RoundDiv(Scale * Scale, ExpSeries(0 - x, 1, Scale))

(***************************************************************************)
(* The classifiers.                                                        *)
(***************************************************************************)
\* every index of the Counter is a valid index of the list w
InBounds(features, w) == \A f \in CounterKeys(features) : f >= 0 /\ f < Len(w)

\* the loop "for f in features: val += features[f] * weight_vector[f]"
RECURSIVE ScoreLoop(_, _, _)
ScoreLoop(features, w, i) ==
    IF i > Len(features.keys) THEN 0
    ELSE features.cnt[features.keys[i]] * w[features.keys[i] + 1]
         + ScoreLoop(features, w, i + 1)

Score(features, w) == ScoreLoop(features, w, 1)

\* the features predict extracts: extract_features(sentence), indexer frozen
PredictFeatures(kind, ix, sentence) == ExtractFeatures(kind, ix, sentence, FALSE).features

\* PerceptronClassifier.predict
PerceptronPredict(kind, ix, w, sentence) ==
    IF Score(PredictFeatures(kind, ix, sentence), w) > 0 THEN 1 ELSE 0

\* LogisticRegressionClassifier.p_1_x: exp(s) / (1 + exp(s))
P1X(kind, ix, w, sentence) ==
    LET e == FixExp(Score(PredictFeatures(kind, ix, sentence), w))
    IN  RoundDiv(e * PScale, Scale + e)

\* LogisticRegressionClassifier.p_1_neg_x: 1 / (1 + exp(s))
P1NegX(kind, ix, w, sentence) ==
    LET e == FixExp(Score(PredictFeatures(kind, ix, sentence), w))
    IN  RoundDiv(Scale * PScale, Scale + e)

\* LogisticRegressionClassifier.predict: p_1_x > 0.5
LRPredict(kind, ix, w, sentence) ==
    IF P1X(kind, ix, w, sentence) > PScale \div 2 THEN 1 ELSE 0

(***************************************************************************)
(* The trainers.                                                           *)
(***************************************************************************)
PerceptronAlpha == Scale \div 20
PerceptronEpochs == 50
LRAlpha == Scale \div 10
LREpochs == 15

Min(a, b) == IF a < b THEN a ELSE b

\* the epochs the model runs of the trainer's fixed budget
Epochs(model) ==
    IF model = "PERCEPTRON" THEN Min(PerceptronEpochs, MaxEpochs)
    ELSE Min(LREpochs, MaxEpochs)

\* [0 for i in range(n)]
Zeros(n) == [i \in 1..n |-> 0]

\* GrowWeights with the extension loop left out
GrowWeightsNone(w, n) == w

\* "for i in range(n - len(w)): w.append(0)"
GrowWeights(w, n) == IF n > Len(w) THEN w \o Zeros(n - Len(w)) ELSE w

\* the results of random.shuffle(train_exs)
Shuffles(exs) ==
    {[i \in 1..Len(exs) |-> exs[p[i]]] : p \in Permutations(1..Len(exs))}

\* PerceptronUpdate with the two branches swapped: subtracts for label 1
RECURSIVE PerceptronUpdateSwapped(_, _, _, _)
PerceptronUpdateSwapped(w, features, label, i) ==
    IF i > Len(features.keys) THEN [weights |-> w, oob |-> FALSE]
    ELSE LET f == features.keys[i]
         IN  IF f >= Len(w) THEN [weights |-> w, oob |-> TRUE]
             ELSE PerceptronUpdateSwapped(
                      [w EXCEPT ![f + 1] =
                          IF label = 1 THEN @ - PerceptronAlpha * features.cnt[f]
                          ELSE @ + PerceptronAlpha * features.cnt[f]],
                      features, label, i + 1)

\* PerceptronUpdate that adds alpha whatever the label
RECURSIVE PerceptronUpdateAddOnly(_, _, _, _)
PerceptronUpdateAddOnly(w, features, label, i) ==
    IF i > Len(features.keys) THEN [weights |-> w, oob |-> FALSE]
    ELSE LET f == features.keys[i]
         IN  IF f >= Len(w) THEN [weights |-> w, oob |-> TRUE]
             ELSE PerceptronUpdateAddOnly(
                      [w EXCEPT ![f + 1] = @ + PerceptronAlpha * features.cnt[f]],
                      features, label, i + 1)

\* "for word_idx in features: weight_vector[word_idx] += / -= alpha * features[word_idx]";
\* stops at the first index out of range (IndexError)
RECURSIVE PerceptronUpdate(_, _, _, _)
PerceptronUpdate(w, features, label, i) ==
    IF i > Len(features.keys) THEN [weights |-> w, oob |-> FALSE]
    ELSE LET f == features.keys[i]
         IN  IF f >= Len(w) THEN [weights |-> w, oob |-> TRUE]
             ELSE PerceptronUpdate(
                      [w EXCEPT ![f + 1] =
                          IF label = 1 THEN @ + PerceptronAlpha * features.cnt[f]
                          ELSE @ - PerceptronAlpha * features.cnt[f]],
                      features, label, i + 1)

\* PerceptronStep that extracts in growth mode and extends the weights before
\* it tests the prediction
PerceptronStepNoSkip(kind, ix, w, ex) ==
    LET r  == ExtractFeatures(kind, ix, ex.words, TRUE)
        w2 == Append(GrowWeights(w, IndexerLen(r.indexer)), 0)
    IN  IF ex.label = PerceptronPredict(kind, r.indexer, w2, ex.words)
        THEN [indexer |-> r.indexer, weights |-> w2, grown |-> w2, oob |-> FALSE]
        ELSE LET u == PerceptronUpdate(w2, r.features, ex.label, 1)
             IN  [indexer |-> r.indexer, weights |-> u.weights, grown |-> w2,
                  oob |-> u.oob]

\* the body of the example loop of train_perceptron
PerceptronStep(kind, ix, w, ex) ==
    IF ~InBounds(PredictFeatures(kind, ix, ex.words), w)
    THEN [indexer |-> ix, weights |-> w, grown |-> w, oob |-> TRUE]
    ELSE IF ex.label = PerceptronPredict(kind, ix, w, ex.words)
    THEN [indexer |-> ix, weights |-> w, grown |-> w, oob |-> FALSE]
    ELSE LET r  == ExtractFeatures(kind, ix, ex.words, TRUE)
             w2 == Append(GrowWeights(w, IndexerLen(r.indexer)), 0)
             u  == PerceptronUpdate(w2, r.features, ex.label, 1)
         IN  [indexer |-> r.indexer, weights |-> u.weights, grown |-> w2,
              oob |-> u.oob]

\* "for f in features: weight_vector[f] += alpha*(1-lr_classifier.p_1_x(words))" and
\* its label-0 twin; lr_classifier.weight_vector is the list being written
RECURSIVE LRUpdate(_, _, _, _, _, _)
LRUpdate(kind, ix, w, features, ex, i) ==
    IF i > Len(features.keys) THEN [weights |-> w, oob |-> FALSE]
    ELSE LET f == features.keys[i]
         IN  IF f >= Len(w) \/ ~InBounds(PredictFeatures(kind, ix, ex.words), w)
             THEN [weights |-> w, oob |-> TRUE]
             ELSE LRUpdate(kind, ix,
                      [w EXCEPT ![f + 1] =
                          IF ex.label = 1
                          THEN @ + RoundDiv(LRAlpha * (PScale - P1X(kind, ix, w, ex.words)),
                                            PScale)
                          ELSE @ - RoundDiv(LRAlpha * (PScale - P1NegX(kind, ix, w, ex.words)),
                                            PScale)],
                      features, ex, i + 1)

\* LRStep that skips a correctly predicted example entirely, as the perceptron does
LRStepSkipFirst(kind, ix, w, ex) ==
    IF LRPredict(kind, ix, w, ex.words) = (IF ex.label = 1 THEN 1 ELSE 0)
    THEN [indexer |-> ix, weights |-> w, grown |-> w, oob |-> FALSE]
    ELSE LET r  == ExtractFeatures(kind, ix, ex.words, TRUE)
             w2 == Append(GrowWeights(w, IndexerLen(r.indexer)), 0)
             u  == LRUpdate(kind, r.indexer, w2, r.features, ex, 1)
         IN  [indexer |-> r.indexer, weights |-> u.weights, grown |-> w2,
              oob |-> u.oob]

\* the body of the example loop of train_logistic_regression
LRStep(kind, ix, w, ex) ==
    LET r  == ExtractFeatures(kind, ix, ex.words, TRUE)
        w2 == Append(GrowWeights(w, IndexerLen(r.indexer)), 0)
    IN  IF ~InBounds(PredictFeatures(kind, r.indexer, ex.words), w2)
        THEN [indexer |-> r.indexer, weights |-> w2, grown |-> w2, oob |-> TRUE]
        ELSE IF LRPredict(kind, r.indexer, w2, ex.words) = (IF ex.label = 1 THEN 1 ELSE 0)
        THEN [indexer |-> r.indexer, weights |-> w2, grown |-> w2, oob |-> FALSE]
        ELSE LET u == LRUpdate(kind, r.indexer, w2, r.features, ex, 1)
             IN  [indexer |-> r.indexer, weights |-> u.weights, grown |-> w2,
                  oob |-> u.oob]

(***************************************************************************)
(* train_model: which branch the configuration takes.                      *)
(***************************************************************************)
ModelValues == {"TRIVIAL", "PERCEPTRON", "LR", "OTHER"}
FeatValues == FeatKinds \cup {"OTHER"}

\* FeatExtractorFor without the TRIVIAL branch: the features value is always examined
FeatExtractorForAlways(model, feats) ==
    IF feats = "UNIGRAM" THEN "UNIGRAM"
    ELSE IF feats = "BIGRAM" THEN "BIGRAM"
    ELSE IF feats = "BETTER" THEN "BETTER"
    ELSE "raise"

\* the first if-chain: the feature extractor, "None" for the trivial model
FeatExtractorFor(model, feats) ==
    IF model = "TRIVIAL" THEN "None"
    ELSE IF feats = "UNIGRAM" THEN "UNIGRAM"
    ELSE IF feats = "BIGRAM" THEN "BIGRAM"
    ELSE IF feats = "BETTER" THEN "BETTER"
    ELSE "raise"

\* both if-chains: "raise", or the model that is built
ConfigOutcome(model, feats) ==
    IF FeatExtractorFor(model, feats) = "raise" THEN "raise"
    ELSE IF model = "TRIVIAL" THEN "TRIVIAL"
    ELSE IF model = "PERCEPTRON" THEN "PERCEPTRON"
    ELSE IF model = "LR" THEN "LR"
    ELSE "raise"

(***************************************************************************)
(* History of the last operation, read by the properties.                  *)
(***************************************************************************)
NoLast ==
    [op |-> "none", words |-> << >>, label |-> 0, add |-> FALSE,
     ixBefore |-> << >>, wBefore |-> << >>, wGrown |-> << >>,
     features |-> CounterEmpty, pred |-> 0, oob |-> FALSE]

(***************************************************************************)
(* Specification of the extractors alone: extract_features is called once, *)
(* on any bounded sentence and in either mode, by an extractor whose       *)
(* indexer holds what a growth-mode extraction of some sentence left.      *)
(***************************************************************************)
InitExtract ==
    /\ args_model = "NONE"
    /\ args_feats \in FeatKinds
    /\ train_exs = << >>
    /\ indexer \in {ExtractFeatures(args_feats, IndexerEmpty, s, TRUE).indexer :
                       s \in SentencesUpTo(MaxSentLen)}
    /\ weight_vector = << >>
    /\ epoch = 0
    /\ pos = 0
    /\ pc = "extract"
    /\ outcome = "none"
    /\ calls = 0
    /\ last = NoLast

ExtractCall(kind, sentence, add_to_indexer) ==
    /\ pc = "extract"
    /\ args_feats = kind
    /\ LET r == ExtractFeatures(kind, indexer, sentence, add_to_indexer)
       IN  /\ indexer' = r.indexer
           /\ last' = [NoLast EXCEPT !.op = "extract", !.words = sentence,
                                     !.add = add_to_indexer,
                                     !.ixBefore = indexer,
                                     !.features = r.features]
    /\ pc' = "extracted"
    /\ UNCHANGED <<args_model, args_feats, train_exs, weight_vector, epoch, pos,
                   outcome, calls>>

UnigramExtract ==
    \E s \in SentencesUpTo(MaxSentLen), a \in BOOLEAN : ExtractCall("UNIGRAM", s, a)

BigramExtract ==
    \E s \in SentencesUpTo(MaxSentLen), a \in BOOLEAN : ExtractCall("BIGRAM", s, a)

BetterExtract ==
    \E s \in SentencesUpTo(MaxSentLen), a \in BOOLEAN : ExtractCall("BETTER", s, a)

NextExtract == UnigramExtract \/ BigramExtract \/ BetterExtract

SpecExtract == InitExtract /\ [][NextExtract]_vars


(***************************************************************************)
(* Specification of training: train_model is called on a training set      *)
(* drawn from a pool of labelled sentences, with any configuration; the    *)
(* trainer runs example by example; the classifier returned is then asked  *)
(* to predict.                                                             *)
(***************************************************************************)
Ex(words, label) == [words |-> words, label |-> label]

TrainPool ==
    { Ex(<< <<"G">> >>, 1),
      Ex(<< <<"g">>, <<"p">> >>, 1),
      Ex(<< <<"t">> >>, 0),
      Ex(<< <<"T">>, <<"n">> >>, 0),
      Ex(<< <<"g">>, <<"t">> >>, 0),
      Ex(<< <<"t">>, <<"g">>, <<"t">> >>, 1),
      Ex(<< >>, 1) }

TestSentences ==
    { << >>, << <<"g">> >>, << <<"z">> >>, << <<"G">>, <<"z">>, <<"t">> >>,
      << <<"t">>, <<"g">>, <<"t">> >> }

RECURSIVE SeqsOfLen(_, _)
SeqsOfLen(S, n) ==
    IF n = 0 THEN {<< >>}
    ELSE {Append(q, x) : q \in SeqsOfLen(S, n - 1), x \in S}

Init ==
    /\ args_model = "NONE"
    /\ args_feats = "NONE"
    /\ train_exs \in UNION {SeqsOfLen(TrainPool, n) : n \in 0..MaxExs}
    /\ indexer = IndexerEmpty
    /\ weight_vector = << >>
    /\ epoch = 0
    /\ pos = 0
    /\ pc = "start"
    /\ outcome = "none"
    /\ calls = 0
    /\ last = NoLast

\* train_model(args, train_exs, dev_exs), up to the first shuffle of the trainer
TrainModel ==
    \E model \in ModelValues, feats \in FeatValues :
        /\ pc = "start"
        /\ args_model' = model
        /\ args_feats' = feats
        /\ indexer' = IndexerEmpty
        /\ weight_vector' = Zeros(IndexerLen(IndexerEmpty))
        /\ epoch' = 0
        /\ pos' = 0
        /\ LET o == ConfigOutcome(model, feats)
           IN  /\ pc' = CASE o = "raise"   -> "raised"
                          [] o = "TRIVIAL" -> "done"
                          [] OTHER         -> "shuffle"
               /\ outcome' = CASE o = "raise"   -> "config_error"
                               [] o = "TRIVIAL" -> "returned"
                               [] OTHER         -> "none"
        /\ last' = [NoLast EXCEPT !.op = "train_model"]
        /\ UNCHANGED <<train_exs, calls>>

\* "for e in range(epochs): random.shuffle(train_exs)"
Shuffle ==
    /\ pc = "shuffle"
    /\ epoch < Epochs(args_model)
    /\ train_exs' \in Shuffles(train_exs)
    /\ pos' = 0
    /\ IF Len(train_exs) = 0
       THEN /\ epoch' = epoch + 1
            /\ pc' = "shuffle"
       ELSE /\ epoch' = epoch
            /\ pc' = "example"
    /\ last' = [NoLast EXCEPT !.op = "shuffle"]
    /\ UNCHANGED <<args_model, args_feats, indexer, weight_vector, outcome, calls>>

\* what the example loop does after one example: r is the result of the body
AfterExample(op, ex, r) ==
    /\ indexer' = r.indexer
    /\ weight_vector' = r.weights
    /\ last' = [NoLast EXCEPT !.op = op, !.words = ex.words, !.label = ex.label,
                              !.ixBefore = indexer, !.wBefore = weight_vector,
                              !.wGrown = r.grown, !.oob = r.oob]
    /\ IF r.oob
       THEN /\ pc' = "raised"
            /\ outcome' = "index_error"
            /\ UNCHANGED <<epoch, pos>>
       ELSE /\ outcome' = outcome
            /\ IF pos + 1 = Len(train_exs)
               THEN /\ epoch' = epoch + 1
                    /\ pos' = 0
                    /\ pc' = "shuffle"
               ELSE /\ epoch' = epoch
                    /\ pos' = pos + 1
                    /\ pc' = "example"
    /\ UNCHANGED <<args_model, args_feats, train_exs, calls>>

\* one iteration of "for train_ex in train_exs" of train_perceptron
PerceptronExample ==
    /\ pc = "example"
    /\ args_model = "PERCEPTRON"
    /\ AfterExample("perceptron", train_exs[pos + 1],
                    PerceptronStep(args_feats, indexer, weight_vector, train_exs[pos + 1]))

\* one iteration of "for train_ex in train_exs" of train_logistic_regression
LRExample ==
    /\ pc = "example"
    /\ args_model = "LR"
    /\ AfterExample("lr", train_exs[pos + 1],
                    LRStep(args_feats, indexer, weight_vector, train_exs[pos + 1]))

\* "return perceptron_classifier" / "return lr_classifier", then "return model"
ReturnModel ==
    /\ pc = "shuffle"
    /\ epoch = Epochs(args_model)
    /\ pc' = "done"
    /\ outcome' = "returned"
    /\ last' = [NoLast EXCEPT !.op = "return"]
    /\ UNCHANGED <<args_model, args_feats, train_exs, indexer, weight_vector,
                   epoch, pos, calls>>

\* predict of the classifier train_model returned, on any sentence
PredictCall ==
    \E sentence \in TestSentences :
        /\ pc = "done"
        /\ calls < MaxCalls
        /\ calls' = calls + 1
        /\ LET f == IF args_model = "TRIVIAL" THEN CounterEmpty
                    ELSE PredictFeatures(args_feats, indexer, sentence)
               bad == ~InBounds(f, weight_vector)
           IN  /\ last' = [NoLast EXCEPT
                    !.op = "predict", !.words = sentence,
                    !.ixBefore = indexer, !.wBefore = weight_vector,
                    !.wGrown = weight_vector, !.features = f, !.oob = bad,
                    !.pred = CASE args_model = "TRIVIAL" -> 1
                               [] bad -> NoIndex
                               [] args_model = "PERCEPTRON" ->
                                    PerceptronPredict(args_feats, indexer, weight_vector, sentence)
                               [] OTHER ->
                                    LRPredict(args_feats, indexer, weight_vector, sentence)]
               /\ pc' = IF bad THEN "raised" ELSE "done"
               /\ outcome' = IF bad THEN "index_error" ELSE outcome
        /\ UNCHANGED <<args_model, args_feats, train_exs, indexer, weight_vector,
                       epoch, pos>>

Next ==
    \/ TrainModel
    \/ Shuffle
    \/ PerceptronExample
    \/ LRExample
    \/ ReturnModel
    \/ PredictCall

Spec == Init /\ [][Next]_vars

\* the scores stay in the range where FixExp is accurate and does not overflow
ScoreInRange ==
    \A i \in 1..Len(weight_vector) :
        weight_vector[i] * 4 <= 6 * Scale /\ weight_vector[i] * 4 >= 0 - 6 * Scale

(***************************************************************************)
(* Vocabulary of the properties.                                           *)
(***************************************************************************)
GramOrder(kind) ==
    CASE kind = "UNIGRAM" -> 1
      [] kind = "BIGRAM"  -> 2
      [] OTHER            -> 3

\* the tokens of ws, each in lower case, joined by single spaces
RECURSIVE JoinWords(_)
JoinWords(ws) ==
    IF Len(ws) = 1 THEN Lower(ws[1])
    ELSE Lower(ws[1]) \o <<" ">> \o JoinWords(Tail(ws))

\* the distinct lowercased n-grams of a sentence, n the order of the extractor
SentenceGrams(kind, words) ==
    {JoinWords(SubSeq(words, i, i + GramOrder(kind) - 1)) :
        i \in 1..(Len(words) - GramOrder(kind) + 1)}

IsTrainStep == last.op \in {"perceptron", "lr"}

\* the prediction the perceptron made of the example of the last step
LastPerceptronPred ==
    PerceptronPredict(args_feats, last.ixBefore, last.wBefore, last.words)

\* the hard prediction of the logistic regression on the example of the last step
LastLRPred == LRPredict(args_feats, last.ixBefore, last.wBefore, last.words)

\* the growth-mode extraction of the last step's example
LastGrowth == ExtractFeatures(args_feats, last.ixBefore, last.words, TRUE)

\* the last step extracted features in growth mode
LastStepGrew ==
    \/ last.op = "lr"
    \/ last.op = "perceptron" /\ LastPerceptronPred # last.label

\* the value at the 0-based index i of the weight vector before the last step,
\* 0 for a position the step added
OldWeight(i) == IF i < Len(last.wBefore) THEN last.wBefore[i + 1] ELSE 0

(***************************************************************************)
(* C1: at the end of every per-example update of either trainer, the       *)
(* length of the weight vector equals the size of the indexer.             *)
(***************************************************************************)
WeightsLenEqualsIndexerSize ==
    LastStepGrew => Len(weight_vector) = IndexerLen(indexer)

ModelRecognized == args_model \in {"TRIVIAL", "PERCEPTRON", "LR"}
FeatsRecognized == args_feats \in {"UNIGRAM", "BIGRAM", "BETTER"}

UnknownFeatureDropping ==
    (last.op = "extract" /\ ~last.add) =>
        /\ indexer = last.ixBefore
        /\ \A k \in CounterKeys(last.features) :
              /\ k \in 0..(Len(last.ixBefore) - 1)
              /\ last.ixBefore[k + 1] \in SentenceGrams(args_feats, last.words)
        /\ \A g \in SentenceGrams(args_feats, last.words) :
              IndexerContains(last.ixBefore, g)
                  => IndexerIndexOf(last.ixBefore, g) \in CounterKeys(last.features)

UnknownFeatureDroppingWitness ==
    /\ last.op = "extract"
    /\ ~last.add
    /\ CounterKeys(last.features) # {}
    /\ \E g \in SentenceGrams(args_feats, last.words) : ~IndexerContains(last.ixBefore, g)

(***************************************************************************)
(* C5: perceptron convergence on separable data.  With the unigram         *)
(* extractor, when every label-1 example contains "great", every label-0   *)
(* example contains "terrible" and the two classes share no word, the      *)
(* classifier train_perceptron returns predicts the label of every         *)
(* training example, whatever the shuffles were; it does so from the end   *)
(* of the first epoch on.                                                  *)
(***************************************************************************)
Great == <<"g">>
Terrible == <<"t">>

LowerWords(words) == {Lower(words[i]) : i \in 1..Len(words)}

ClassVocab(exs, label) ==
    UNION {LowerWords(exs[i].words) : i \in {j \in 1..Len(exs) : exs[j].label = label}}

Separable(exs) ==
    /\ \A i \in 1..Len(exs) :
          /\ exs[i].label = 1 => Great \in LowerWords(exs[i].words)
          /\ exs[i].label = 0 => Terrible \in LowerWords(exs[i].words)
    /\ ClassVocab(exs, 1) \cap ClassVocab(exs, 0) = {}

PerceptronConverges ==
    (/\ pc = "done" \/ (pc = "shuffle" /\ epoch >= 1)
     /\ args_model = "PERCEPTRON"
     /\ args_feats = "UNIGRAM"
     /\ Separable(train_exs)) =>
        \A i \in 1..Len(train_exs) :
            PerceptronPredict("UNIGRAM", indexer, weight_vector, train_exs[i].words)
                = train_exs[i].label

PerceptronConvergesWitness ==
    /\ pc = "done"
    /\ args_model = "PERCEPTRON"
    /\ args_feats = "UNIGRAM"
    /\ Separable(train_exs)
    /\ \E i, j \in 1..Len(train_exs) :
          /\ train_exs[i].label = 1
          /\ train_exs[j].label = 0
          /\ Len(train_exs[i].words) > 1
    /\ \E i \in 1..Len(weight_vector) : weight_vector[i] > 0

(***************************************************************************)
(* C6: binary features and arity.  In growth mode the keys of the vector   *)
(* are exactly the indices of the distinct lowercased n-grams of the       *)
(* sentence, every value is 1 however often an n-gram repeats and          *)
(* whatever its case, and a sentence shorter than n gives an empty vector  *)
(* and adds nothing to the indexer.                                        *)
(***************************************************************************)
BinaryFeaturesAndArity ==
    (last.op = "extract" /\ last.add) =>
        LET grams == SentenceGrams(args_feats, last.words)
        IN  /\ \A g \in grams : IndexerContains(indexer, g)
            /\ CounterKeys(last.features) = {IndexerIndexOf(indexer, g) : g \in grams}
            /\ Cardinality(CounterKeys(last.features)) = Cardinality(grams)
            /\ Len(last.features.keys) = Cardinality(grams)
            /\ DOMAIN last.features.cnt = CounterKeys(last.features)
            /\ \A k \in CounterKeys(last.features) : last.features.cnt[k] = 1
            /\ Len(last.words) < GramOrder(args_feats)
                  => /\ CounterKeys(last.features) = {}
                     /\ indexer = last.ixBefore

BinaryFeaturesAndArityWitness ==
    /\ last.op = "extract"
    /\ last.add
    /\ Len(last.words) - GramOrder(args_feats) + 1
          > Cardinality(SentenceGrams(args_feats, last.words))
    /\ \E i \in 1..Len(last.words) : Lower(last.words[i]) # last.words[i]
    /\ IndexerLen(indexer) > IndexerLen(last.ixBefore)
    /\ IndexerLen(last.ixBefore) > 0

(***************************************************************************)
(* C7: when an example triggers a numeric update of the logistic           *)
(* regression, every active feature of the example receives the same       *)
(* increment, computed from the probability under the weight vector as it  *)
(* was before any weight of the example was changed.                       *)
(***************************************************************************)
LRUpdateUsesPreUpdateProbability ==
    (last.op = "lr" /\ weight_vector # last.wGrown) =>
        \A f \in CounterKeys(LastGrowth.features) :
            weight_vector[f + 1] - last.wGrown[f + 1] =
                IF last.label = 1
                THEN RoundDiv(LRAlpha * (PScale - P1X(args_feats, indexer, last.wGrown,
                                                       last.words)), PScale)
                ELSE 0 - RoundDiv(LRAlpha * (PScale - P1NegX(args_feats, indexer,
                                                             last.wGrown, last.words)),
                                  PScale)

(***************************************************************************)
(* C8: perceptron skip.  For an example whose current prediction equals    *)
(* its label the step changes nothing: the indexer keeps its keys and the  *)
(* weight vector its length and values.                                    *)
(***************************************************************************)
PerceptronSkipChangesNothing ==
    (last.op = "perceptron" /\ LastPerceptronPred = last.label) =>
        /\ indexer = last.ixBefore
        /\ weight_vector = last.wBefore

PerceptronSkipWitness ==
    /\ last.op = "perceptron"
    /\ LastPerceptronPred = last.label
    /\ \E g \in SentenceGrams(args_feats, last.words) : ~IndexerContains(indexer, g)
    /\ IndexerLen(indexer) > 0

(***************************************************************************)
(* C9: logistic regression always grows.  Every visited example is         *)
(* extracted in growth mode: after the step all its n-grams are in the     *)
(* indexer and the weight vector covers them; and when the hard            *)
(* prediction already equals the label no existing weight changes, the     *)
(* vector is only extended with zeros.                                     *)
(***************************************************************************)
LRAlwaysGrows ==
    last.op = "lr" =>
        /\ \A g \in SentenceGrams(args_feats, last.words) :
              /\ IndexerContains(indexer, g)
              /\ IndexerIndexOf(indexer, g) < Len(weight_vector)
        /\ LastLRPred = last.label =>
              /\ Len(weight_vector) >= Len(last.wBefore)
              /\ \A i \in 0..(Len(weight_vector) - 1) : weight_vector[i + 1] = OldWeight(i)

LRAlwaysGrowsWitness ==
    /\ last.op = "lr"
    /\ LastLRPred = last.label
    /\ IndexerLen(indexer) > IndexerLen(last.ixBefore)
    /\ IndexerLen(last.ixBefore) > 0
    /\ \E i \in 1..Len(weight_vector) : weight_vector[i] # 0

(***************************************************************************)
(* C10: perceptron mistake update.  For an example whose prediction        *)
(* differs from its label, the weight of every active feature of the       *)
(* example changes by +alpha*count for label 1 and by -alpha*count for     *)
(* label 0 (count = 1), and every other weight keeps its value, 0 for a    *)
(* position the step added.                                                *)
(***************************************************************************)
PerceptronMistakeUpdate ==
    (last.op = "perceptron" /\ LastPerceptronPred # last.label) =>
        LET keys == CounterKeys(LastGrowth.features)
        IN  /\ indexer = LastGrowth.indexer
            /\ keys = {IndexerIndexOf(indexer, g) :
                          g \in SentenceGrams(args_feats, last.words)}
            /\ Len(weight_vector) >= Len(last.wBefore)
            /\ \A k \in keys : k < Len(weight_vector)
            /\ \A i \in 0..(Len(weight_vector) - 1) :
                  weight_vector[i + 1] =
                      OldWeight(i) + (IF i \notin keys THEN 0
                                      ELSE IF last.label = 1 THEN PerceptronAlpha * 1
                                      ELSE 0 - PerceptronAlpha * 1)

PerceptronMistakeUpdateWitness ==
    /\ last.op = "perceptron"
    /\ LastPerceptronPred # last.label
    /\ last.label = 0
    /\ Cardinality(CounterKeys(LastGrowth.features)) >= 2
    /\ IndexerLen(indexer) > IndexerLen(last.ixBefore)
    /\ IndexerLen(last.ixBefore) > 0

=============================================================================
